---- MODULE Spec2Model ----
(***************************************************************************)
(* A model of the KOL analytics data service                               *)
(* (backend/app/services/kol_service.py, backend/app/models.py,            *)
(* backend/app/routers/kol_router.py).                                     *)
(*                                                                         *)
(* Python lists are objects: a list is modelled as a reference into        *)
(* `heap`, so that returning the store's own list and returning a copy of  *)
(* it are different things.  Strings that are searched by substring (name, *)
(* affiliation, query) are sequences of one-character strings; strings     *)
(* that are only compared for equality (id, country, expertiseArea) are    *)
(* TLA+ strings.  The optional field `city` takes part in no operation and *)
(* is left out of the records.  Floating point quotients are exact         *)
(* rationals <<numerator, denominator>>.                                   *)
(***************************************************************************)
EXTENDS Integers, Sequences, FiniteSets, TLC

VARIABLES
    source,      \* the data file settings.json_data_path points to
    instance,    \* KOLService._instance: "None" or "obj"
    svc,         \* the caller's reference to the service (kol_service): "None" or "obj"
    kols,        \* the list self._kols resolves to: "cls" (class attribute) or "inst"
    kols_by_id,  \* the dict self._kols_by_id resolves to (id -> record)
    heap,        \* list objects: reference -> sequence of records
    held,        \* the list object the caller got from its last list-returning call
    heldFrom,    \* the method that returned it
    nmut,        \* number of caller mutations so far
    lastOp,      \* the last call: [op, args]
    result,      \* its outcome: [kind |-> "return" | "raise", val |-> ...]
    threads,     \* threads inside KOLService(): thread -> [pc, self, got]
    objs,        \* instance attributes of the objects created: object -> [kols, by_id]
    loads        \* the number of times _load_data has been entered

vars ==
    <<source, instance, svc, kols, kols_by_id, heap, held, heldFrom, nmut, lastOp,
      result, threads, objs, loads>>

\* what the single-caller operations leave alone
conc == <<threads, objs, loads>>

\* what the threads of concurrent construction leave alone
seq == <<svc, kols, kols_by_id, heap, held, heldFrom, nmut, lastOp, result>>

----------------------------------------------------------------------------
(* Bounds of the model *)

MaxRecords == 2
MaxQueryRecords == 2
MaxStatsRecords == 3
MaxWideExtra == 1
MaxMutations == 1
MaxThreads == 2

----------------------------------------------------------------------------
(* Generic helpers *)

None == "None"

Range(s) == {s[i] : i \in DOMAIN s}

SeqsUpTo(S, n) == UNION {[1..k -> S] : k \in 0..n}

RECURSIVE SumSeq(_)
SumSeq(s) == IF s = <<>> THEN 0 ELSE s[1] + SumSeq(Tail(s))

\* the distinct values of a sequence in first-encountered order (dict key order)
RECURSIVE Dedup(_)
Dedup(s) ==
    IF s = <<>> THEN <<>>
    ELSE LET front == SubSeq(s, 1, Len(s) - 1)
             d == Dedup(front)
         IN IF s[Len(s)] \in Range(d) THEN d ELSE Append(d, s[Len(s)])

Min(a, b) == IF a <= b THEN a ELSE b

\* an Optional[...] value is a sequence of length <= 1: <<>> is Python's None
Absent == <<>>

Some(v) == <<v>>

----------------------------------------------------------------------------
(* Record model: models.py, class KOL *)

Rec(id, name, aff, country, area, pubs, h, cit) ==
    [id |-> id, name |-> name, affiliation |-> aff, country |-> country,
     expertiseArea |-> area, publicationsCount |-> pubs, hIndex |-> h,
     citations |-> cit]

\* declaration order of the validated fields of KOL
FieldOrder ==
    <<"id", "name", "affiliation", "country", "expertiseArea",
      "publicationsCount", "hIndex", "citations">>

FieldPos(f) == CHOOSE i \in DOMAIN FieldOrder : FieldOrder[i] = f

\* the Field(...) constraints: min_length=1, ge=0
FieldOk(item, f) ==
    CASE f = "name" -> Len(item.name) >= 1
      [] f = "country" -> item.country # ""
      [] f = "publicationsCount" -> item.publicationsCount >= 0
      [] f = "hIndex" -> item.hIndex >= 0
      [] f = "citations" -> item.citations >= 0
      [] OTHER -> TRUE

\* `values` handed to a validator of field f: the fields declared before f
\* that validated
ValuesBefore(item, f) ==
    {g \in Range(FieldOrder) : FieldPos(g) < FieldPos(f) /\ FieldOk(item, g)}

\* @validator('publicationsCount'): TRUE when it returns v, FALSE when it raises
validate_publications_vs_hindex(item, values) ==
    ~("hIndex" \in values /\ item.publicationsCount < item.hIndex)

\* KOL(**item) returns a record (TRUE) or raises ValidationError (FALSE)
KOLValid(item) ==
    /\ \A f \in Range(FieldOrder) : FieldOk(item, f)
    /\ validate_publications_vs_hindex(item, ValuesBefore(item, "publicationsCount"))

----------------------------------------------------------------------------
(* Data store: kol_service.py, KOLService *)

Refs == {"cls", "inst", "ret"}

Ret(v) == [kind |-> "return", val |-> v]
Raise(e) == [kind |-> "raise", val |-> e]

\* variant of BuildIndex in which the first entry of an id is kept
BuildIndexFirstWins(ks) ==
    [x \in {ks[i].id : i \in DOMAIN ks} |->
        ks[CHOOSE i \in DOMAIN ks :
              ks[i].id = x /\ \A j \in DOMAIN ks : ks[j].id = x => i <= j]]

\* {kol.id: kol for kol in self._kols}: a later entry overrides an earlier one
BuildIndex(ks) ==
    [x \in {ks[i].id : i \in DOMAIN ks} |->
        ks[CHOOSE i \in DOMAIN ks :
              ks[i].id = x /\ \A j \in DOMAIN ks : ks[j].id = x => j <= i]]

\* the outcome of _load_data on a data file
LoadOutcome(src) ==
    IF src.kind = "missing" THEN Raise("FileNotFoundError")
    ELSE IF src.kind = "malformed" THEN Raise("JSONDecodeError")
    ELSE IF \E i \in DOMAIN src.data : ~KOLValid(src.data[i])
         THEN Raise("ValidationError")
    ELSE Ret(src.data)

\* self._kols as the methods read it
Kols == heap[kols]

\* variant of ListCopyRef in which the list itself is returned
ListAliasRef(ref) == ref

\* the reference self._kols.copy() returns: a new list object
ListCopyRef(ref) == "ret"

\* KOLService(): __new__, with _load_data when no instance exists yet
Construct ==
    /\ lastOp' = [op |-> "KOLService", args |-> <<>>]
    /\ IF instance = None
       THEN /\ instance' = "obj"
            /\ LET out == LoadOutcome(source) IN
               IF out.kind = "return"
               THEN /\ heap' = [heap EXCEPT !["inst"] = out.val]
                    /\ kols' = "inst"
                    /\ kols_by_id' = BuildIndex(out.val)
                    /\ result' = Ret("obj")
                    /\ svc' = "obj"
               ELSE /\ result' = out
                    /\ UNCHANGED <<svc, heap, kols, kols_by_id>>
       ELSE /\ result' = Ret(instance)
            /\ svc' = instance
            /\ UNCHANGED <<instance, heap, kols, kols_by_id>>
    /\ UNCHANGED <<source, held, heldFrom, nmut>>
    /\ UNCHANGED conc

\* get_all_kols(): self._kols.copy()
GetAllKols ==
    /\ svc # None
    /\ LET r == ListCopyRef(kols) IN
       /\ heap' = [heap EXCEPT ![r] = Kols]
       /\ held' = r
    /\ heldFrom' = "get_all_kols"
    /\ lastOp' = [op |-> "get_all_kols", args |-> <<>>]
    /\ result' = Ret(Kols)
    /\ UNCHANGED <<source, instance, svc, kols, kols_by_id, nmut>>
    /\ UNCHANGED conc

\* dict.get(kol_id): the value, or None
DictGet(d, k) == IF k \in DOMAIN d THEN Some(d[k]) ELSE Absent

\* get_kol_by_id(kol_id)
GetKolById(kol_id) ==
    /\ svc # None
    /\ lastOp' = [op |-> "get_kol_by_id", args |-> <<kol_id>>]
    /\ result' = Ret(DictGet(kols_by_id, kol_id))
    /\ UNCHANGED <<source, instance, svc, kols, kols_by_id, heap, held, heldFrom, nmut>>
    /\ UNCHANGED conc

----------------------------------------------------------------------------
(* Concurrent first access: threads inside KOLService(), one step per       *)
(* statement of __new__ and _load_data; a thread may be preempted between   *)
(* any two of them.  The object thread t creates is ObjectNames[t].         *)

Threads == 1..MaxThreads

ObjectNames == <<"o1", "o2", "o3", "o4">>

Objects == {ObjectNames[t] : t \in Threads}

At(t, label) == threads[t].pc = label

Goto(t, label) == threads' = [threads EXCEPT ![t].pc = label]

\* line 33: `if cls._instance is None:`
T_Check(t) ==
    /\ At(t, "L33")
    /\ Goto(t, IF instance = None THEN "L34" ELSE "L36")
    /\ UNCHANGED <<source, instance, objs, loads, seq>>

\* line 34: `cls._instance = super().__new__(cls)`
T_New(t) ==
    /\ At(t, "L34")
    /\ instance' = ObjectNames[t]
    /\ Goto(t, "L35")
    /\ UNCHANGED <<source, objs, loads, seq>>

\* line 35: `cls._instance._load_data()`, up to the file being read and parsed
\* (lines 44-50); self is whatever cls._instance holds at the call
T_CallLoad(t) ==
    /\ At(t, "L35")
    /\ loads' = loads + 1
    /\ threads' = [threads EXCEPT
                      ![t].self = instance,
                      ![t].pc = IF source.kind = "ok" THEN "L53" ELSE "raised"]
    /\ UNCHANGED <<source, instance, objs, seq>>

\* line 53: `self._kols = [KOL(**item) for item in raw_data]`
T_Validate(t) ==
    /\ At(t, "L53")
    /\ IF LoadOutcome(source).kind = "return"
       THEN /\ objs' = [objs EXCEPT ![threads[t].self].kols = Some(source.data)]
            /\ Goto(t, "L56")
       ELSE /\ Goto(t, "raised")
            /\ UNCHANGED objs
    /\ UNCHANGED <<source, instance, loads, seq>>

\* line 56: `self._kols_by_id = {kol.id: kol for kol in self._kols}`
T_Index(t) ==
    /\ At(t, "L56")
    /\ objs' = [objs EXCEPT ![threads[t].self].by_id =
                                Some(BuildIndex(objs[threads[t].self].kols[1]))]
    /\ Goto(t, "L36")
    /\ UNCHANGED <<source, instance, loads, seq>>

\* line 36: `return cls._instance`
T_Return(t) ==
    /\ At(t, "L36")
    /\ threads' = [threads EXCEPT ![t].got = instance, ![t].pc = "done"]
    /\ UNCHANGED <<source, instance, objs, loads, seq>>

----------------------------------------------------------------------------
(* Query engine: KOLService.search_kols *)

LowerChar(c) ==
    CASE c = "A" -> "a"
      [] c = "B" -> "b"
      [] c = "C" -> "c"
      [] OTHER -> c

\* str.lower()
Lower(s) == [i \in DOMAIN s |-> LowerChar(s[i])]

\* `q in s` for strings
IsSubstr(q, s) ==
    \E i \in 0..(Len(s) - Len(q)) : SubSeq(s, i + 1, i + Len(q)) = q

SearchArgs(q, c, e, lo, hi) ==
    [query |-> q, country |-> c, expertise_area |-> e,
     min_h_index |-> lo, max_h_index |-> hi]

\* `if query:` : neither None nor empty
QueryApplies(a) == a.query # Absent /\ a.query[1] # <<>>

\* `if country:`
CountryApplies(a) == a.country # Absent /\ a.country[1] # ""

\* `if expertise_area:`
ExpertiseApplies(a) == a.expertise_area # Absent /\ a.expertise_area[1] # ""

\* `if min_h_index is not None:`
MinApplies(a) == a.min_h_index # Absent

\* variant of MaxApplies that tests truthiness (`if max_h_index:`)
MaxAppliesTruthy(a) == a.max_h_index # Absent /\ a.max_h_index[1] # 0

\* `if max_h_index is not None:`
MaxApplies(a) == a.max_h_index # Absent

\* query_lower in kol.name.lower() or query_lower in kol.affiliation.lower()
QueryMatch(kol, q) ==
    \/ IsSubstr(Lower(q), Lower(kol.name))
    \/ IsSubstr(Lower(q), Lower(kol.affiliation))

\* whether search_kols built a new list (some filter ran) or still holds self._kols
SearchFiltered(a) ==
    \/ QueryApplies(a) \/ CountryApplies(a) \/ ExpertiseApplies(a)
    \/ MinApplies(a) \/ MaxApplies(a)

\* variant of InitialResults that starts from the values of the id index
InitialResultsFromIndex(ks) ==
    LET ids == Dedup([i \in DOMAIN ks |-> ks[i].id])
    IN [i \in DOMAIN ids |-> BuildIndex(ks)[ids[i]]]

\* `results = self._kols`
InitialResults(ks) == ks

\* the successive list comprehensions of search_kols
SearchResults(ks, a) ==
    LET ByQuery(k) == QueryMatch(k, a.query[1])
        ByCountry(k) == k.country = a.country[1]
        ByExpertise(k) == k.expertiseArea = a.expertise_area[1]
        ByMin(k) == k.hIndex >= a.min_h_index[1]
        ByMax(k) == k.hIndex <= a.max_h_index[1]
        r0 == InitialResults(ks)
        r1 == IF QueryApplies(a) THEN SelectSeq(r0, ByQuery) ELSE r0
        r2 == IF CountryApplies(a) THEN SelectSeq(r1, ByCountry) ELSE r1
        r3 == IF ExpertiseApplies(a) THEN SelectSeq(r2, ByExpertise) ELSE r2
        r4 == IF MinApplies(a) THEN SelectSeq(r3, ByMin) ELSE r3
        r5 == IF MaxApplies(a) THEN SelectSeq(r4, ByMax) ELSE r4
    IN r5

\* search_kols(query, country, expertise_area, min_h_index, max_h_index)
SearchKols(a) ==
    /\ svc # None
    /\ LET r == IF SearchFiltered(a) THEN "ret" ELSE kols IN
       /\ heap' = [heap EXCEPT ![r] = SearchResults(Kols, a)]
       /\ held' = r
    /\ heldFrom' = "search_kols"
    /\ lastOp' = [op |-> "search_kols", args |-> a]
    /\ result' = Ret(SearchResults(Kols, a))
    /\ UNCHANGED <<source, instance, svc, kols, kols_by_id, nmut>>
    /\ UNCHANGED conc

\* the router's GET /api/kols: search when any filter is given, else all
RouterUsesSearch(a) ==
    \/ QueryApplies(a) \/ CountryApplies(a) \/ ExpertiseApplies(a)
    \/ a.min_h_index # Absent \/ a.max_h_index # Absent

\* Query(None, min_length=1) on `query`: an empty query is refused with 422
get_kols(a) ==
    /\ svc # None
    /\ lastOp' = [op |-> "get_kols", args |-> a]
    /\ IF a.query = Some(<<>>)
       THEN /\ result' = Raise("RequestValidationError")
            /\ UNCHANGED <<heap, held, heldFrom>>
       ELSE IF RouterUsesSearch(a)
       THEN /\ result' = Ret(SearchResults(Kols, a))
            /\ LET r == IF SearchFiltered(a) THEN "ret" ELSE kols IN
               /\ heap' = [heap EXCEPT ![r] = SearchResults(Kols, a)]
               /\ held' = r
            /\ heldFrom' = "search_kols"
       ELSE /\ result' = Ret(Kols)
            /\ LET r == ListCopyRef(kols) IN
               /\ heap' = [heap EXCEPT ![r] = Kols]
               /\ held' = r
            /\ heldFrom' = "get_all_kols"
    /\ UNCHANGED <<source, instance, svc, kols, kols_by_id, nmut>>
    /\ UNCHANGED conc

----------------------------------------------------------------------------
(* Statistics engine: KOLService.calculate_statistics *)

TopN == 10

Count(vals, v) == Cardinality({i \in DOMAIN vals : vals[i] = v})

\* Counter(vals).items(): (key, count) pairs in first-encountered order
Counter(vals) ==
    LET d == Dedup(vals)
    IN [i \in DOMAIN d |-> [key |-> d[i], count |-> Count(vals, d[i])]]

\* variant of SortedByCountDesc: an ascending sort, reversed (equal counts end
\* up in reverse order)
SortedByCountAscReversed(items) ==
    LET rank(i) ==
            Cardinality({j \in DOMAIN items : items[j].count > items[i].count})
            + Cardinality({j \in DOMAIN items :
                              j > i /\ items[j].count = items[i].count})
            + 1
    IN [r \in DOMAIN items |-> items[CHOOSE i \in DOMAIN items : rank(i) = r]]

\* sorted(items, key=count, reverse=True): stable, so equal counts keep their order
SortedByCountDesc(items) ==
    LET rank(i) ==
            Cardinality({j \in DOMAIN items : items[j].count > items[i].count})
            + Cardinality({j \in DOMAIN items :
                              j < i /\ items[j].count = items[i].count})
            + 1
    IN [r \in DOMAIN items |-> items[CHOOSE i \in DOMAIN items : rank(i) = r]]

\* variant of MostCommon that takes the first n items as they come
MostCommonUnsorted(items, n) == SubSeq(items, 1, Min(n, Len(items)))

\* Counter.most_common(n): heapq.nlargest(n, items, key=count), which is
\* sorted(items, key=count, reverse=True)[:n]

MostCommon(items, n) ==
    LET srt == SortedByCountDesc(items) IN SubSeq(srt, 1, Min(n, Len(srt)))

\* CountryDistribution / ExpertiseDistribution; percentage = (count/total)*100
DistributionEntry(item, total) ==
    [label |-> item.key, count |-> item.count,
     percentage |-> <<item.count * 100, total>>]

\* round(num/den, digits), in units of 10^-digits, ties to even
Pow10(d) == IF d = 0 THEN 1 ELSE IF d = 1 THEN 10 ELSE 100

Round(q, digits) ==
    LET scaled == q[1] * Pow10(digits)
        fl == scaled \div q[2]
        rem == scaled % q[2]
    IN IF 2 * rem > q[2] THEN fl + 1
       ELSE IF 2 * rem < q[2] THEN fl
       ELSE IF fl % 2 = 0 THEN fl ELSE fl + 1

\* kol.citations / kol.publicationsCount if kol.publicationsCount > 0 else 0
Ratio(kol) ==
    IF kol.publicationsCount > 0
    THEN <<kol.citations, kol.publicationsCount>>
    ELSE <<0, 1>>

RatLess(a, b) == a[1] * b[2] < b[1] * a[2]

\* variant of ArgMax that keeps the last maximal element
ArgMaxLast(ks) ==
    CHOOSE i \in DOMAIN ks :
        /\ \A j \in DOMAIN ks : ~RatLess(Ratio(ks[i]), Ratio(ks[j]))
        /\ \A j \in DOMAIN ks : j > i => RatLess(Ratio(ks[j]), Ratio(ks[i]))

\* max(kol_with_ratios, key=ratio): the first element whose key is maximal
ArgMax(ks) ==
    CHOOSE i \in DOMAIN ks :
        /\ \A j \in DOMAIN ks : ~RatLess(Ratio(ks[i]), Ratio(ks[j]))
        /\ \A j \in DOMAIN ks : j < i => RatLess(Ratio(ks[j]), Ratio(ks[i]))

\* variant of EmptyCheck that lets an empty record set through
EmptyCheckSkipped(ks) == FALSE

\* `if not self._kols: raise ValueError(...)`
EmptyCheck(ks) == ks = <<>>

\* variant of TotalPublications that leaves the first record out
TotalPublicationsOffByFirst(ks) ==
    SumSeq([i \in DOMAIN ks |-> IF i = 1 THEN 0 ELSE ks[i].publicationsCount])

\* sum(kol.publicationsCount for kol in self._kols), and the like
TotalPublications(ks) == SumSeq([i \in DOMAIN ks |-> ks[i].publicationsCount])

TotalCitations(ks) == SumSeq([i \in DOMAIN ks |-> ks[i].citations])

TotalHIndex(ks) == SumSeq([i \in DOMAIN ks |-> ks[i].hIndex])

\* total_citations / total_publications if total_publications > 0 else 0
AvgCitationsPerPub(ks) ==
    IF TotalPublications(ks) > 0
    THEN <<TotalCitations(ks), TotalPublications(ks)>>
    ELSE <<0, 1>>

TopCountries(ks) ==
    LET items == MostCommon(Counter([i \in DOMAIN ks |-> ks[i].country]), TopN)
    IN [i \in DOMAIN items |-> DistributionEntry(items[i], Len(ks))]

ExpertiseDistribution(ks) ==
    LET items == SortedByCountDesc(Counter([i \in DOMAIN ks |-> ks[i].expertiseArea]))
    IN [i \in DOMAIN items |-> DistributionEntry(items[i], Len(ks))]

\* the whole of calculate_statistics on the record sequence ks
Statistics(ks) ==
    IF EmptyCheck(ks)
    THEN Raise("ValueError: No KOL data available for statistics calculation")
    ELSE IF Len(ks) = 0 THEN Raise("ZeroDivisionError")  \* `/ total_kols`
    ELSE
    LET avg == AvgCitationsPerPub(ks)
        top == ks[ArgMax(ks)]
        top_ratio == Ratio(top)
    IN IF avg[1] = 0 THEN Raise("ZeroDivisionError")  \* `/ avg_citations_per_pub`
       ELSE Ret([totalKOLs |-> Len(ks),
                 totalPublications |-> TotalPublications(ks),
                 countriesRepresented |->
                     Len(Counter([i \in DOMAIN ks |-> ks[i].country])),
                 avgHIndex |-> Round(<<TotalHIndex(ks), Len(ks)>>, 1),
                 avgCitationsPerPublication |-> Round(avg, 1),
                 topCountries |-> TopCountries(ks),
                 expertiseDistribution |-> ExpertiseDistribution(ks),
                 topCitationRatioKOL |->
                     [kol |-> top,
                      ratio |-> Round(top_ratio, 2),
                      percentageAboveAverage |->
                          Round(<<(top_ratio[1] * avg[2] - avg[1] * top_ratio[2]) * 100,
                                  top_ratio[2] * avg[1]>>, 2)]])

CalculateStatistics ==
    /\ svc # None
    /\ lastOp' = [op |-> "calculate_statistics", args |-> <<>>]
    /\ result' = Statistics(Kols)
    /\ UNCHANGED <<source, instance, svc, kols, kols_by_id, heap, held, heldFrom, nmut>>
    /\ UNCHANGED conc

----------------------------------------------------------------------------
(* The caller's side: external modification of a returned list *)

MutItem == Rec("9", <<"z">>, <<"z">>, "ZZ", "Zed", 9, 9, 9)

Reverse(l) == [i \in DOMAIN l |-> l[Len(l) + 1 - i]]

MutationKinds == {"append", "remove", "replace", "reorder"}

Mutate(kind, l) ==
    CASE kind = "append" -> Append(l, MutItem)
      [] kind = "remove" -> IF l = <<>> THEN l ELSE Tail(l)
      [] kind = "replace" -> IF l = <<>> THEN l ELSE [l EXCEPT ![1] = MutItem]
      [] kind = "reorder" -> Reverse(l)

\* the caller appends to, removes from, replaces in or reorders the list it holds
CallerMutate(kind) ==
    /\ held # "none"
    /\ nmut < MaxMutations
    /\ heap' = [heap EXCEPT ![held] = Mutate(kind, heap[held])]
    /\ nmut' = nmut + 1
    /\ lastOp' = [op |-> "mutate", args |-> <<kind>>]
    /\ result' = Ret(Absent)
    /\ UNCHANGED <<source, instance, svc, kols, kols_by_id, held, heldFrom>>
    /\ UNCHANGED conc

----------------------------------------------------------------------------
(* Inputs: data files and request arguments *)

\* raw items of the data file, valid and invalid
LifeItems ==
    { Rec("1", <<"A", "b">>, <<"c">>, "US", "Derm", 10, 5, 100),
      Rec("2", <<"b">>, <<"A">>, "FR", "Onco", 0, 0, 0),
      Rec("1", <<"c">>, <<"b">>, "US", "Onco", 5, 3, 50),
      Rec("3", <<>>, <<"a">>, "FR", "Derm", 4, 2, 8),
      Rec("3", <<"d">>, <<"a">>, "DE", "Derm", 3, 5, 7),
      Rec("2", <<"d">>, <<"a">>, "DE", "Onco", 6, 2, -1) }

QueryItems ==
    { Rec("1", <<"A", "b">>, <<"c">>, "US", "Derm", 10, 5, 100),
      Rec("2", <<"b", "C">>, <<"A">>, "us", "Onco", 6, 3, 30),
      Rec("1", <<"c">>, <<"a", "B">>, "US", "Onco", 5, 3, 50),
      Rec("3", <<"c">>, <<>>, "FR", "", 0, 0, 0),
      Rec("4", <<"a">>, <<"c", "b">>, "FR", "Derm", 8, 4, 20) }

StatsItems ==
    { Rec("1", <<"a">>, <<"x">>, "US", "Derm", 10, 5, 100),
      Rec("2", <<"b">>, <<"x">>, "FR", "Onco", 20, 8, 200),
      Rec("3", <<"c">>, <<"x">>, "US", "Onco", 5, 3, 50),
      Rec("4", <<"d">>, <<"x">>, "DE", "Derm", 0, 0, 0),
      Rec("5", <<"e">>, <<"x">>, "FR", "Vit", 0, 0, 7),
      Rec("6", <<"f">>, <<"x">>, "DE", "Derm", 4, 2, 2),
      Rec("7", <<"g">>, <<"x">>, "US", "Vit", 3, 1, 0) }

\* data files with more distinct countries and expertise areas than TopN
WideNames ==
    <<"n01", "n02", "n03", "n04", "n05", "n06", "n07", "n08", "n09", "n10",
      "n11", "n12">>

WideRec(i) ==
    Rec(WideNames[i], <<"w">>, <<"w">>, WideNames[i],
        WideNames[((i * 5) % (TopN + 1)) + 1], 2, 1, 4)

WideBase(n) == [i \in 1..n |-> WideRec(i)]

WideExtras == {WideRec(1), WideRec(2), WideRec(TopN + 1), WideRec(TopN + 2)}

WideData ==
    { pre \o WideBase(n) \o post :
        n \in (TopN - 1)..(TopN + 2),
        pre \in SeqsUpTo(WideExtras, MaxWideExtra),
        post \in SeqsUpTo(WideExtras, MaxWideExtra) }

File(data) == [kind |-> "ok", data |-> data]

LifeSources ==
    {[kind |-> "missing", data |-> <<>>], [kind |-> "malformed", data |-> <<>>]}
    \cup {File(d) : d \in SeqsUpTo(LifeItems, MaxRecords)}

QuerySources == {File(d) : d \in SeqsUpTo(QueryItems, MaxQueryRecords)}

StatsSources ==
    {File(d) : d \in SeqsUpTo(StatsItems, MaxStatsRecords)}
    \cup {File(d) : d \in WideData}

Ids == {"1", "2", "3", "4", "7"}

OptQuery == {Absent, Some(<<>>), Some(<<"a", "B">>)}
OptCountry == {Absent, Some(""), Some("US")}
OptExpertise == {Absent, Some(""), Some("Onco")}
OptMin == {Absent, Some(0), Some(4)}
OptMax == {Absent, Some(0), Some(4)}

QueryArgs ==
    {SearchArgs(q, c, e, lo, hi) :
        q \in OptQuery, c \in OptCountry, e \in OptExpertise,
        lo \in OptMin, hi \in OptMax}

NoArgs == SearchArgs(Absent, Absent, Absent, Absent, Absent)

LifeArgs ==
    {NoArgs,
     SearchArgs(Some(<<>>), Some(""), Some(""), Absent, Absent),
     SearchArgs(Absent, Some("US"), Absent, Absent, Absent),
     SearchArgs(Absent, Absent, Absent, Some(0), Absent)}

----------------------------------------------------------------------------
(* Specifications *)

InitWith(sources) ==
    /\ source \in sources
    /\ instance = None
    /\ svc = None
    /\ kols = "cls"
    /\ kols_by_id = <<>>
    /\ heap = [r \in Refs |-> <<>>]
    /\ held = "none"
    /\ heldFrom = "none"
    /\ nmut = 0
    /\ lastOp = [op |-> "start", args |-> <<>>]
    /\ result = Ret(Absent)
    /\ threads = [t \in Threads |-> [pc |-> "L33", self |-> None, got |-> None]]
    /\ objs = [o \in Objects |-> [kols |-> Absent, by_id |-> Absent]]
    /\ loads = 0

\* the service's life: construction, requests, and callers that modify what
\* they were handed
Init == InitWith(LifeSources)

Next ==
    \/ Construct
    \/ GetAllKols
    \/ \E x \in Ids : GetKolById(x)
    \/ \E a \in LifeArgs : SearchKols(a)
    \/ CalculateStatistics
    \/ \E kind \in MutationKinds : CallerMutate(kind)

Spec == Init /\ [][Next]_vars

\* lookups and searches on a loaded store.  A read leaves the store as it is,
\* so each request is taken right after construction.
InitQuery == InitWith(QuerySources)

FreshlyConstructed == lastOp.op = "KOLService"

NextQuery ==
    \/ Construct
    \/ FreshlyConstructed /\ GetAllKols
    \/ FreshlyConstructed /\ \E x \in Ids : GetKolById(x)
    \/ FreshlyConstructed /\ \E a \in QueryArgs : SearchKols(a)
    \/ FreshlyConstructed /\ \E a \in QueryArgs : get_kols(a)

SpecQuery == InitQuery /\ [][NextQuery]_vars

\* statistics over loaded data files
InitStats == InitWith(StatsSources)

NextStats ==
    \/ Construct
    \/ CalculateStatistics

SpecStats == InitStats /\ [][NextStats]_vars

\* threads that call KOLService() while no instance exists yet
InitConc == InitWith(LifeSources)

NextConc ==
    \E t \in Threads :
        \/ T_Check(t)
        \/ T_New(t)
        \/ T_CallLoad(t)
        \/ T_Validate(t)
        \/ T_Index(t)
        \/ T_Return(t)

SpecConc == InitConc /\ [][NextConc]_vars

----------------------------------------------------------------------------
(* Properties *)

Called(op) == lastOp.op = op

Returned(op) == lastOp.op = op /\ result.kind = "return"

\* C1: a raw record whose publicationsCount is below its hIndex never
\* validates, so a data file that loaded holds no such record.
C1_PublicationsBelowHIndexRejected ==
    Returned("KOLService") =>
        \A i \in DOMAIN source.data :
            source.data[i].publicationsCount >= source.data[i].hIndex

\* C2: a failed load is permanent: KOLService() hands out a service object
\* only when the data file loaded in full, and no request is answered from a
\* store that never loaded.
C2_FailedLoadNeverServed ==
    /\ Returned("KOLService") => LoadOutcome(source).kind = "return"
    /\ svc # None => kols = "inst"

\* C3: after a load, get_kol_by_id(x) returns the last record of the loaded
\* sequence whose id is x, or None when no record has that id, while
\* get_all_kols returns every entry of the sequence, duplicates included.
C3_GetByIdLastWins ==
    /\ Returned("get_kol_by_id") =>
          LET x == lastOp.args[1]
              d == source.data
          IN IF \E i \in DOMAIN d : d[i].id = x
             THEN /\ Len(result.val) = 1
                  /\ \E i \in DOMAIN d :
                        /\ d[i].id = x
                        /\ result.val[1] = d[i]
                        /\ \A j \in DOMAIN d : j > i => d[j].id # x
             ELSE result.val = Absent
    /\ Called("get_kol_by_id") => result.kind = "return"
    /\ Called("get_all_kols") => result = Ret(source.data)

C3_Witness ==
    /\ Returned("get_kol_by_id")
    /\ Len(source.data) = 2
    /\ source.data[1].id = lastOp.args[1]
    /\ source.data[2].id = lastOp.args[1]
    /\ source.data[1] # source.data[2]
    /\ result.val = Some(source.data[2])

\* C4: whatever a caller does to a list it got from get_all_kols, the
\* store's record sequence and its id index stay as they were.
C4_GetAllIsACopy ==
    [][(lastOp'.op = "mutate" /\ heldFrom = "get_all_kols") =>
          /\ kols' = kols
          /\ heap'[kols'] = heap[kols]
          /\ kols_by_id' = kols_by_id]_vars

C4_Witness ==
    /\ Called("mutate")
    /\ heldFrom = "get_all_kols"
    /\ kols = "inst"
    /\ Kols # <<>>
    /\ heap[held] # Kols

\* q is a substring of s up to letter case
FoldedSubstr(q, s) ==
    \E off \in 0..(Len(s) - Len(q)) :
        \A i \in 1..Len(q) : LowerChar(s[off + i]) = LowerChar(q[i])

\* the five predicates, each binding only when `given` says its argument counts
MatchesAll(k, a, givenQuery(_), givenStr(_), givenInt(_)) ==
    /\ givenQuery(a.query) =>
          FoldedSubstr(a.query[1], k.name) \/ FoldedSubstr(a.query[1], k.affiliation)
    /\ givenStr(a.country) => k.country = a.country[1]
    /\ givenStr(a.expertise_area) => k.expertiseArea = a.expertise_area[1]
    /\ givenInt(a.min_h_index) => a.min_h_index[1] <= k.hIndex
    /\ givenInt(a.max_h_index) => k.hIndex <= a.max_h_index[1]

NotNone(o) == o # Absent

NotNoneNotEmpty(o) == o # Absent /\ o[1] # ""

NotNoneNotEmptySeq(o) == o # Absent /\ o[1] # <<>>

\* res is the subsequence of ks, in order, of the records that satisfy P
IsSubsequenceWhere(res, ks, P(_)) ==
    LET pos == {i \in DOMAIN ks : P(ks[i])}
    IN /\ Len(res) = Cardinality(pos)
       /\ \A n \in DOMAIN res :
             \E i \in pos :
                /\ Cardinality({j \in pos : j <= i}) = n
                /\ res[n] = ks[i]

\* C5 (as stated): search_kols returns, in store order, exactly the records
\* satisfying every predicate whose argument is not None, the empty string
\* counting as a supplied string predicate.
C5_SearchEveryNotNonePredicate ==
    Returned("search_kols") =>
        LET P(k) == MatchesAll(k, lastOp.args, NotNone, NotNone, NotNone)
        IN IsSubsequenceWhere(result.val, Kols, P)

\* C5 (amended): search_kols returns, in store order, exactly the records
\* satisfying every supplied predicate, where query, country and
\* expertise_area count as supplied when neither None nor empty, and
\* min_h_index and max_h_index whenever not None (0 included).
C5_SearchEverySuppliedPredicate ==
    /\ Called("search_kols") => result.kind = "return"
    /\ Returned("search_kols") =>
          LET P(k) == MatchesAll(k, lastOp.args, NotNoneNotEmptySeq, NotNoneNotEmpty, NotNone)
          IN IsSubsequenceWhere(result.val, Kols, P)

C5_Witness ==
    /\ Returned("search_kols")
    /\ lastOp.args.country = Some("")
    /\ lastOp.args.query = Some(<<"a", "B">>)
    /\ lastOp.args.max_h_index = Some(4)
    /\ Len(Kols) = 2
    /\ Len(result.val) = 1
    /\ result.val[1] = Kols[2]

\* C6: search_kols with all five arguments None returns the sequence
\* get_all_kols returns: same length, same elements, same order.
C6_SearchNoPredicatesIsGetAll ==
    (Called("search_kols") /\ lastOp.args = NoArgs) =>
        /\ result.kind = "return"
        /\ Len(result.val) = Len(Kols)
        /\ \A i \in DOMAIN Kols : result.val[i] = Kols[i]
        /\ result.val = source.data

C6_Witness ==
    /\ Returned("search_kols")
    /\ lastOp.args = NoArgs
    /\ Len(result.val) = 2
    /\ result.val[1].id = result.val[2].id
    /\ result.val[1] # result.val[2]

\* C7: calculate_statistics on an empty record set raises the empty-dataset
\* ValueError; it neither returns statistics nor fails in another way.
C7_EmptyDatasetError ==
    (Called("calculate_statistics") /\ Kols = <<>>) =>
        result = Raise("ValueError: No KOL data available for statistics calculation")

C7_Witness ==
    /\ Called("calculate_statistics")
    /\ kols = "inst"
    /\ source.kind = "ok"
    /\ Kols = <<>>
    /\ result.kind = "raise"

RECURSIVE FieldSum(_, _)
FieldSum(ks, f) ==
    IF ks = <<>> THEN 0
    ELSE ks[Len(ks)][f] + FieldSum(SubSeq(ks, 1, Len(ks) - 1), f)

\* C8 (as stated): the statistics object carries the record count, the sum
\* of publicationsCount and the sum of citations, all three as fields.
C8_ThreeTotalsInResult ==
    Returned("calculate_statistics") =>
        /\ result.val.totalKOLs = Len(Kols)
        /\ result.val.totalPublications = FieldSum(Kols, "publicationsCount")
        /\ "totalCitations" \in DOMAIN result.val
        /\ result.val.totalCitations = FieldSum(Kols, "citations")

\* C8 (amended): the statistics object carries totalKOLs, the record count,
\* and totalPublications, the sum of publicationsCount; the sum of citations
\* is no field of it and shows only through avgCitationsPerPublication, the
\* quotient of the two sums rounded to one decimal.
C8_TotalsInResult ==
    Returned("calculate_statistics") =>
        /\ result.val.totalKOLs = Len(Kols)
        /\ result.val.totalPublications = FieldSum(Kols, "publicationsCount")
        /\ "totalCitations" \notin DOMAIN result.val
        /\ result.val.avgCitationsPerPublication =
              Round(<<FieldSum(Kols, "citations"),
                      FieldSum(Kols, "publicationsCount")>>, 1)

C8_Witness ==
    /\ Returned("calculate_statistics")
    /\ Len(Kols) = 3
    /\ result.val.totalPublications = 35
    /\ result.val.avgCitationsPerPublication = 100

\* facts about a distribution `dist` of the values `vals`
FirstPos(vals, v) == CHOOSE i \in DOMAIN vals : vals[i] = v /\ \A j \in 1..(i - 1) : vals[j] # v

TrueCounts(dist, vals) ==
    /\ \A i \in DOMAIN dist :
          /\ dist[i].label \in Range(vals)
          /\ dist[i].count = Cardinality({j \in DOMAIN vals : vals[j] = dist[i].label})
          /\ dist[i].percentage[1] * Len(vals) = dist[i].count * 100 * dist[i].percentage[2]
    /\ \A i, j \in DOMAIN dist : i # j => dist[i].label # dist[j].label

CountOrdered(dist, vals) ==
    \A i, j \in DOMAIN dist :
        i < j =>
            \/ dist[i].count > dist[j].count
            \/ /\ dist[i].count = dist[j].count
               /\ FirstPos(vals, dist[i].label) < FirstPos(vals, dist[j].label)

Labels(dist) == {dist[i].label : i \in DOMAIN dist}

CountrySeq == [i \in DOMAIN Kols |-> Kols[i].country]

AreaSeq == [i \in DOMAIN Kols |-> Kols[i].expertiseArea]

C10_ExpertiseDistribution ==
    (Called("calculate_statistics") /\ Kols # <<>>) =>
        LET ed == ExpertiseDistribution(Kols)
            vals == AreaSeq
        IN /\ result.kind = "return" => result.val.expertiseDistribution = ed
           /\ Labels(ed) = Range(vals)
           /\ Len(ed) = Cardinality(Range(vals))
           /\ TrueCounts(ed, vals)
           /\ CountOrdered(ed, vals)
           /\ SumSeq([i \in DOMAIN ed |-> ed[i].count]) = Len(Kols)

C10_Witness ==
    /\ Returned("calculate_statistics")
    /\ Len(result.val.expertiseDistribution) > 10
    /\ result.val.expertiseDistribution[1].count > result.val.expertiseDistribution[2].count
    /\ result.val.expertiseDistribution[2].count = result.val.expertiseDistribution[3].count
    /\ FirstPos(AreaSeq, result.val.expertiseDistribution[1].label) > 1

\* the citation ratio of record a is strictly larger than that of record b,
\* a record without publications counting as ratio 0
RatioNum(k) == IF k.publicationsCount > 0 THEN k.citations ELSE 0

RatioDen(k) == IF k.publicationsCount > 0 THEN k.publicationsCount ELSE 1

LargerRatio(a, b) == RatioNum(a) * RatioDen(b) > RatioNum(b) * RatioDen(a)

\* C11: when calculate_statistics returns, topCitationRatioKOL.kol is the
\* record at the smallest position whose ratio is maximal: no record has a
\* strictly larger ratio and every earlier record has a strictly smaller one.
C11_TopRatioFirstMaximal ==
    Returned("calculate_statistics") =>
        \E i \in DOMAIN Kols :
            /\ result.val.topCitationRatioKOL.kol = Kols[i]
            /\ \A j \in DOMAIN Kols : ~LargerRatio(Kols[j], Kols[i])
            /\ \A j \in 1..(i - 1) : LargerRatio(Kols[i], Kols[j])

C11_Witness ==
    /\ Returned("calculate_statistics")
    /\ Len(Kols) = 3
    /\ [i \in 1..3 |-> Kols[i].publicationsCount] = <<10, 20, 5>>
    /\ [i \in 1..3 |-> Kols[i].citations] = <<100, 200, 50>>
    /\ result.val.topCitationRatioKOL.kol = Kols[1]
    /\ result.val.topCitationRatioKOL.ratio = 1000

\* C13: calculate_statistics is total on non-empty data: on every non-empty
\* record set it returns a statistics object, also when every record has
\* publicationsCount = 0 or every record has citations = 0.
C13_StatisticsTotalOnNonEmpty ==
    (Called("calculate_statistics") /\ Kols # <<>>) => result.kind = "return"

\* C14: the list search_kols returns is never the store's own sequence:
\* whatever a caller does to it, the store's record sequence stays as it was.
C14_SearchResultIsNotTheStore ==
    [][(lastOp'.op = "mutate" /\ heldFrom = "search_kols") =>
          /\ kols' = kols
          /\ heap'[kols'] = heap[kols]]_vars

\* C15: when calculate_statistics returns, the selected top ratio is at least
\* the dataset average totalCitations/totalPublications, so
\* percentageAboveAverage is not negative.
C15_TopRatioAtLeastAverage ==
    Returned("calculate_statistics") =>
        LET top == result.val.topCitationRatioKOL.kol
        IN /\ RatioNum(top) * FieldSum(Kols, "publicationsCount")
                 >= FieldSum(Kols, "citations") * RatioDen(top)
           /\ result.val.topCitationRatioKOL.percentageAboveAverage >= 0

\* the object a thread got back is fully built: its record sequence is
\* loaded and its id index is built
Built(o) == objs[o].kols # Absent /\ objs[o].by_id # Absent

\* C12: when threads call KOLService() concurrently and no instance exists
\* yet, _load_data runs at most once and no thread obtains a service object
\* whose record sequence is not loaded or whose id index is not built (on a
\* data file that loads).
C12_GuardedInitialisation ==
    LoadOutcome(source).kind = "return" =>
        /\ loads <= 1
        /\ \A t \in Threads : threads[t].got # None => Built(threads[t].got)

====
